---- MODULE Spec2Model ----
(***************************************************************************)
(* Model of the retail-ai-location-strategy tools:                         *)
(*   app/tools/places_details.py   get_places_details                      *)
(*   app/tools/places_insights.py  analyze_market_gaps,                    *)
(*                                 get_price_segmentation,                 *)
(*                                 find_competitor_weaknesses              *)
(*                                                                         *)
(* One tool call runs at a time (the tools are synchronous functions).     *)
(* The external collaborators (Places API, BigQuery warehouse, session     *)
(* state, process environment) are nondeterministic: every step that       *)
(* touches one of them chooses among the outcomes it can produce.          *)
(*                                                                         *)
(* Encoding of Python values:                                              *)
(*   None            is  <<>>          (None)                              *)
(*   a non-None v    is  <<v>>         (Some(v))                           *)
(*   a dict          is  a function whose DOMAIN is the set of keys        *)
(*   a float with one decimal (29.9) is the integer number of tenths (299) *)
(***************************************************************************)
EXTENDS Integers, Sequences, FiniteSets, TLC

(* ------------------------------ bounds -------------------------------- *)
\* longest review list the Places API returns in the model (code keeps 5)
MaxReviews == 6
\* longest row list the warehouse returns to a formatter in the model
MaxRows == 2
\* largest per-price-level count in a PRICE_DISTRIBUTION row
MaxCount == 1

(* --------------------------- Python helpers --------------------------- *)
None == <<>>
Some(v) == <<v>>
IsNone(o) == o = <<>>
Val(o) == o[1]

\* dict.get(key, default)
Get(d, k, default) == IF k \in DOMAIN d THEN d[k] ELSE default

\* dict.get(key): the default is None
GetOpt(d, k) == Get(d, k, None)

EmptyDict == [k \in {} |-> None]

\* s[:n]
Slice(s, n) == IF Len(s) <= n THEN s ELSE SubSeq(s, 1, n)

Digit(d) == <<"0", "1", "2", "3", "4", "5", "6", "7", "8", "9">>[d + 1]

RECURSIVE IntToStr(_)
\* str(n) of a non-negative int
IntToStr(n) == IF n < 10 THEN Digit(n) ELSE IntToStr(n \div 10) \o Digit(n % 10)

\* str(x) of a non-negative float held as tenths: 299 is "29.9", 300 is "30.0"
TenthsToStr(t) == IntToStr(t \div 10) \o "." \o Digit(t % 10)

(* ------------------------------- state -------------------------------- *)
VARIABLES
    pc,          \* position of the running tool call
    tool,        \* entry point the caller invoked
    args,        \* the entry point's arguments and the configuration it reads
    key,         \* get_places_details: maps_api_key
    place,       \* get_places_details: place_details
    apiCalls,    \* keys the Places API was called with during this call
    az,          \* analyze_market_gaps frame: mode, target_amenity, caller, query
    azResult,    \* value the analyzer returned to its caller
    trace,       \* analyzer calls / warehouse queries / analyzer returns, in order
    insights,    \* find_competitor_weaknesses: insights
    locals,      \* find_competitor_weaknesses: vuln_data and gap_data
    result,      \* value returned to the tool's caller
    escaped,     \* an exception propagated to the tool's caller
    table        \* warehouse table contents (query evaluation)

vars == <<pc, tool, args, key, place, apiCalls, az, azResult, trace,
          insights, locals, result, escaped, table>>

NoFrame == [mode |-> "", target_amenity |-> None, ret |-> "", query |-> None]
NoInsights == [vulnerable_areas |-> <<>>, amenity_gaps |-> <<>>]
\* a local that is not bound yet
Unbound == [status |-> "unbound"]
NoLocals == [vuln_data |-> Unbound, gap_data |-> Unbound]

Init ==
    /\ pc = "idle"
    /\ tool = ""
    /\ args = EmptyDict
    /\ key = ""
    /\ place = EmptyDict
    /\ apiCalls = <<>>
    /\ az = NoFrame
    /\ azResult = EmptyDict
    /\ trace = <<>>
    /\ insights = NoInsights
    /\ locals = NoLocals
    /\ result = EmptyDict
    /\ escaped = FALSE
    /\ table = <<>>

\* the tool returns v to its caller
Return(v) ==
    /\ pc' = "done"
    /\ result' = v
    /\ escaped' = FALSE

\* an exception leaves the tool
Raise ==
    /\ pc' = "done"
    /\ result' = EmptyDict
    /\ escaped' = TRUE

(* ====================================================================== *)
(* places_details.py                                                      *)
(* ====================================================================== *)
PlaceIds == {"ChIJN1t_tDeuEmsRUsoyG83frY4"}

\* tool_context: None, or a context whose state holds maps_api_key or not
ToolContexts ==
    {None} \cup
    {Some([state |-> EmptyDict])} \cup
    {Some([state |-> [k \in {"maps_api_key"} |-> v]]) : v \in {None, Some(""), Some("AIza-session")}}

\* os.environ: MAPS_API_KEY unset, empty or set
Environs ==
    {EmptyDict} \cup {[k \in {"MAPS_API_KEY"} |-> v] : v \in {"", "AIza-env"}}

KeyNotFoundMsg == "Maps API key not found. Set MAPS_API_KEY environment variable or 'maps_api_key' in session state."
NoDetailsMsg == "No details found for the provided Place ID."
\* str(e) of a caught exception
ExcMsg(what) == "exception: " \o what

PdError(msg) == [status |-> "error", error_message |-> msg, insights |-> EmptyDict]

\* Python truthiness of an optional string
Truthy(o) == ~IsNone(o) /\ Val(o) # ""

\* a resolution that prefers the environment variable over the session value
ResolveKey_envFirst(state, environ) ==
    LET e == Get(environ, "MAPS_API_KEY", "")
        s == Get(state, "maps_api_key", Some(""))
    IN  IF e # "" THEN e ELSE IF Truthy(s) THEN Val(s) ELSE ""

\* tool_context.state.get("maps_api_key", "") or os.environ.get("MAPS_API_KEY", "")
ResolveKey(state, environ) ==
    LET s == Get(state, "maps_api_key", Some(""))
    IN  IF Truthy(s) THEN Val(s) ELSE Get(environ, "MAPS_API_KEY", "")

\* get_places_details(place_id, tool_context) is called
CallGetPlacesDetails ==
    /\ pc = "idle"
    /\ \E p \in PlaceIds, c \in ToolContexts, e \in Environs :
          args' = [place_id |-> p, tool_context |-> c, environ |-> e]
    /\ tool' = "get_places_details"
    /\ pc' = "pd_key"
    /\ UNCHANGED <<key, place, apiCalls, az, azResult, trace, insights, locals, result, escaped, table>>

\* import googlemaps; resolve the key; reject a missing key
PdResolveKey ==
    /\ pc = "pd_key"
    /\ \/ \* import googlemaps fails: caught by the handler
          /\ Return(PdError(ExcMsg("ImportError")))
          /\ key' = key
       \/ \* tool_context is None: AttributeError on .state, caught by the handler
          /\ IsNone(args.tool_context)
          /\ Return(PdError(ExcMsg("AttributeError")))
          /\ key' = key
       \/ /\ ~IsNone(args.tool_context)
          /\ LET k == ResolveKey(Val(args.tool_context).state, args.environ)
             IN  IF k = ""
                 THEN Return(PdError(KeyNotFoundMsg)) /\ key' = key
                 ELSE /\ key' = k
                      /\ pc' = "pd_client"
                      /\ UNCHANGED <<result, escaped>>
    /\ UNCHANGED <<tool, args, place, apiCalls, az, azResult, trace, insights, locals, table>>

\* gmaps = googlemaps.Client(key=maps_api_key)
PdCreateClient ==
    /\ pc = "pd_client"
    /\ \/ Return(PdError(ExcMsg("googlemaps.Client")))
       \/ pc' = "pd_place" /\ UNCHANGED <<result, escaped>>
    /\ UNCHANGED <<tool, args, key, place, apiCalls, az, azResult, trace, insights, locals, table>>

(* ---- what the Places API can answer ---- *)
Review1 == [author_name |-> Some("Ann"), rating |-> Some(5),
            text |-> Some("Great"), relative_time_description |-> Some("a week ago")]
\* a review with every optional field missing
Review2 == EmptyDict
ReviewKinds == {Review1, Review2}

ReviewLists == UNION {[1..n -> ReviewKinds] : n \in 0..MaxReviews}

\* One upstream field: absent from the record, present holding null, or present
\* holding the value v.
Absent(v) == <<"absent", v>>
Null(v) == <<"null", v>>
Present(v) == <<"value", v>>
FieldChoices(v) == {Absent(v), Null(v), Present(v)}

\* the dict holding the fields of ks that are not absent
MkDict(ks, choice) ==
    [k \in {x \in ks : choice[x][1] # "absent"} |->
        IF choice[k][1] = "null" THEN None ELSE Some(choice[k][2])]

PlaceFields == {"name", "formatted_phone_number", "website", "editorial_summary",
                "opening_hours", "reviews"}

\* every result record over PlaceFields (each field absent, null or a value)
PlaceResults ==
    {MkDict(PlaceFields,
            [name |-> n, formatted_phone_number |-> p, website |-> w,
             editorial_summary |-> e, opening_hours |-> h, reviews |-> r]) :
        n \in {Absent(""), Present("Cafe Uno")},
        p \in FieldChoices("+1 312 555 0100"),
        w \in FieldChoices("https://cafe.example"),
        e \in {Absent(EmptyDict), Null(EmptyDict), Present([overview |-> "Cozy."])},
        h \in {Absent(EmptyDict), Null(EmptyDict)},
        r \in {Absent(<<>>), Null(<<>>)} \cup {Present(l) : l \in ReviewLists}}

\* the response of gmaps.place: with or without a 'result'
PlaceResponses ==
    {EmptyDict} \cup {[k \in {"result"} |-> r] : r \in PlaceResults}

\* place_details = gmaps.place(place_id=place_id, fields=fields)
PdPlace ==
    /\ pc = "pd_place"
    /\ apiCalls' = Append(apiCalls, key)
    /\ \/ Return(PdError(ExcMsg("gmaps.place"))) /\ place' = place
       \/ /\ \E resp \in PlaceResponses : place' = resp
          /\ pc' = "pd_format"
          /\ UNCHANGED <<result, escaped>>
    /\ UNCHANGED <<tool, args, key, az, azResult, trace, insights, locals, table>>

\* one entry of formatted_reviews
FormatReview(review) ==
    [author |-> Get(review, "author_name", Some("Anonymous")),
     rating |-> Get(review, "rating", Some(0)),
     text   |-> Get(review, "text", Some("")),
     time   |-> Get(review, "relative_time_description", Some(""))]

\* a loop over every review, without the [:5]
FormatReviews_all(reviews) ==
    [i \in 1..Len(reviews) |-> FormatReview(reviews[i])]

\* for review in result.get('reviews', [])[:5]
FormatReviews(reviews) ==
    LET top == Slice(reviews, 5)
    IN  [i \in 1..Len(top) |-> FormatReview(top[i])]

\* result.get(key, "N/A")
ContactField(res, k) == Get(res, k, Some("N/A"))

\* the expressions of the formatting block that raise (caught by the handler)
FormatRaises(res) ==
    \/ IsNone(Get(res, "reviews", Some(<<>>)))          \* None[:5]
    \/ IsNone(Get(res, "opening_hours", Some(EmptyDict)))     \* None.get
    \/ IsNone(Get(res, "editorial_summary", Some(EmptyDict))) \* None.get

BuildInsights(res) ==
    [name    |-> GetOpt(res, "name"),
     summary |-> Get(Val(Get(res, "editorial_summary", Some(EmptyDict))),
                     "overview", "No summary available."),
     contact |-> [phone   |-> ContactField(res, "formatted_phone_number"),
                  website |-> ContactField(res, "website"),
                  address |-> GetOpt(res, "formatted_address")],
     metrics |-> [rating        |-> GetOpt(res, "rating"),
                  total_reviews |-> GetOpt(res, "user_ratings_total"),
                  price_level   |-> Get(res, "price_level", Some("N/A"))],
     amenities |-> [wheelchair_accessible |-> GetOpt(res, "wheelchair_accessible_entrance"),
                    vegetarian_options    |-> GetOpt(res, "serves_vegetarian_food"),
                    delivery              |-> GetOpt(res, "delivery"),
                    dine_in               |-> GetOpt(res, "dine_in")],
     hours   |-> Get(Val(Get(res, "opening_hours", Some(EmptyDict))), "weekday_text", <<>>),
     latest_reviews |-> FormatReviews(Val(Get(res, "reviews", Some(<<>>))))]

\* result = place_details.get('result', {}) ... return
PdFormat ==
    /\ pc = "pd_format"
    /\ LET res == Get(place, "result", EmptyDict)
       IN  IF DOMAIN res = {}
           THEN Return(PdError(NoDetailsMsg))
           ELSE IF FormatRaises(res)
           THEN Return(PdError(ExcMsg("TypeError")))
           ELSE Return([status |-> "success", insights |-> BuildInsights(res)])
    /\ UNCHANGED <<tool, args, key, place, apiCalls, az, azResult, trace, insights, locals, table>>

(* ====================================================================== *)
(* places_insights.py: analyze_market_gaps                                *)
(* ====================================================================== *)
Cities == {"Chicago"}
BusinessTypes == {"coffee_shop"}

DefaultTableId == "your-project.places_insights_us_sample.places"

\* os.environ.get("PLACES_BQ_TABLE_ID", default)
TableId(environ) == Get(environ, "PLACES_BQ_TABLE_ID", DefaultTableId)

allowed_cols ==
    {"drive_through", "outdoor_seating", "delivery", "takeout", "dine_in",
     "serves_breakfast", "serves_lunch", "serves_dinner",
     "wheelchair_accessible_entrance", "serves_vegetarian_food"}

ValidModes == {"AMENITY_GAP", "VULNERABILITY", "PRICE_DISTRIBUTION"}

\* analysis_mode values a caller passes: the three modes and two that are not
AnalysisModes == ValidModes \cup {"amenity_gap", "TREND"}

\* target_amenity / check_amenity values a caller passes: absent, empty,
\* allow-listed, differing in case only, and an injection attempt
Amenities ==
    {None, Some(""), Some("drive_through"), Some("Drive_Through"),
     Some("rating) OR (1=1")}

AmenityRequiredMsg == "target_amenity is required for AMENITY_GAP mode."
InvalidAmenityMsg == "Invalid amenity. Allowed: {allowed_cols}"
InvalidModeMsg == "Invalid analysis_mode."
ValidationMsgs == {AmenityRequiredMsg, InvalidAmenityMsg, InvalidModeMsg}

AzError(msg) == [status |-> "error", error_message |-> msg]

AzSuccess(mode, city, rows) ==
    [status |-> "success", analysis_mode |-> mode, city |-> city, results |-> rows]

Event(e, m, i) == [ev |-> e, mode |-> m, info |-> i]

\* The query text and its parameters.  select names the template; column is
\* the only fragment interpolated into the text besides the table id.
Query(mode, column, environ, city, type) ==
    [select |-> mode, column |-> column, table_id |-> TableId(environ),
     params |-> [city |-> city, type |-> type]]

\* analyze_market_gaps(...) is entered from caller `ret`
EnterAnalyzer(mode, amenity, ret) ==
    /\ az' = [mode |-> mode, target_amenity |-> amenity, ret |-> ret, query |-> None]
    /\ trace' = Append(trace, Event("call", mode, ""))
    /\ pc' = "az_client"

\* analyze_market_gaps returns v to its caller, after the events evs
AzReturnAfter(evs, v) ==
    /\ azResult' = v
    /\ trace' = (trace \o evs) \o <<Event("return", az.mode, v.status)>>
    /\ CASE az.ret = "top"   -> Return(v)
         [] az.ret = "price" -> pc' = "ps_format" /\ UNCHANGED <<result, escaped>>
         [] az.ret = "vuln"  -> pc' = "cw_vuln" /\ UNCHANGED <<result, escaped>>
         [] az.ret = "gap"   -> pc' = "cw_gap" /\ UNCHANGED <<result, escaped>>

AzReturn(v) == AzReturnAfter(<<>>, v)

\* the tool analyze_market_gaps is called
CallAnalyzeMarketGaps ==
    /\ pc = "idle"
    /\ \E c \in Cities, b \in BusinessTypes, m \in AnalysisModes, a \in Amenities :
          /\ args' = [city |-> c, business_type |-> b, analysis_mode |-> m,
                      target_amenity |-> a, environ |-> EmptyDict]
          /\ EnterAnalyzer(m, a, "top")
    /\ tool' = "analyze_market_gaps"
    /\ UNCHANGED <<key, place, apiCalls, azResult, insights, locals, result, escaped, table>>

\* table_id = os.environ.get(...); client = bigquery.Client()
AzCreateClient ==
    /\ pc = "az_client"
    /\ \/ \* bigquery.Client() raises (no credentials, no project): caught
          /\ AzReturn(AzError(ExcMsg("bigquery.Client")))
          /\ az' = az
       \/ /\ pc' = "az_dispatch"
          /\ UNCHANGED <<az, azResult, trace, result, escaped>>
    /\ UNCHANGED <<tool, args, key, place, apiCalls, insights, locals, table>>

\* the if/elif chain on analysis_mode: validation and query construction
AzDispatch ==
    /\ pc = "az_dispatch"
    /\ LET q == Query(az.mode, None, args.environ, args.city, args.business_type)
       IN  CASE az.mode = "AMENITY_GAP" ->
                  IF ~Truthy(az.target_amenity)
                  THEN AzReturn(AzError(AmenityRequiredMsg)) /\ az' = az
                  ELSE IF Val(az.target_amenity) \notin allowed_cols
                  THEN AzReturn(AzError(InvalidAmenityMsg)) /\ az' = az
                  ELSE /\ az' = [az EXCEPT !.query =
                                    Some([q EXCEPT !.column = az.target_amenity])]
                       /\ pc' = "az_exec"
                       /\ UNCHANGED <<azResult, trace, result, escaped>>
             [] az.mode \in {"VULNERABILITY", "PRICE_DISTRIBUTION"} ->
                  /\ az' = [az EXCEPT !.query = Some(q)]
                  /\ pc' = "az_exec"
                  /\ UNCHANGED <<azResult, trace, result, escaped>>
             [] OTHER ->
                  AzReturn(AzError(InvalidModeMsg)) /\ az' = az
    /\ UNCHANGED <<tool, args, key, place, apiCalls, insights, locals, table>>

(* ---- what the warehouse can answer ---- *)
ZipCode(i) == IntToStr(60600 + i)
Zips == {ZipCode(i) : i \in 1..2}

CountChoices == {Present(c) : c \in 0..MaxCount}

PriceRow(z, b, m, l) ==
    MkDict({"postal_code", "budget_count", "moderate_count", "luxury_count"},
           [postal_code |-> Present(z), budget_count |-> b,
            moderate_count |-> m, luxury_count |-> l])

\* rows as the query produces them, the rows of the documented examples, and
\* rows in which one count column is missing or null
PriceRows ==
    {PriceRow(z, b, m, l) : z \in Zips, b \in CountChoices, m \in CountChoices,
                            l \in CountChoices}
    \cup {PriceRow(ZipCode(1), Present(2), Present(3), Present(5)),
          PriceRow(ZipCode(1), Present(3), Present(3), Present(3)),
          PriceRow(ZipCode(1), Present(5), Present(1), Present(1)),
          PriceRow(ZipCode(1), Present(5), Present(2), Present(1)),
          PriceRow(ZipCode(2), Present(45), Present(30), Present(120))}
    \cup {PriceRow(ZipCode(1), x, Present(1), Present(1)) : x \in {Absent(0), Null(0)}}
    \cup {PriceRow(ZipCode(1), Present(1), x, Present(1)) : x \in {Absent(0), Null(0)}}
    \cup {PriceRow(ZipCode(1), Present(1), Present(1), x) : x \in {Absent(0), Null(0)}}

VulnRow(z, r, v) ==
    MkDict({"postal_code", "avg_rating", "total_review_volume"},
           [postal_code |-> z, avg_rating |-> r, total_review_volume |-> v])

\* avg_rating is held in hundredths (ROUND(AVG(rating), 2))
VulnRows ==
    {VulnRow(Present(ZipCode(1)), Present(385), Present(1200)),
     VulnRow(Present(ZipCode(2)), Present(350), Present(40)),
     VulnRow(Absent(""), Null(0), Absent(0))}

GapRow(z, s) ==
    MkDict({"postal_code", "saturation_percentage"},
           [postal_code |-> Present(z), saturation_percentage |-> s])

\* saturation_percentage is held in tenths (ROUND(..., 1))
GapRows ==
    {GapRow(z, s) : z \in Zips,
                    s \in {Absent(0), Null(0), Present(0), Present(299),
                           Present(300), Present(301), Present(1000)}}

RowKinds(mode) ==
    CASE mode = "PRICE_DISTRIBUTION" -> PriceRows
      [] mode = "VULNERABILITY"      -> VulnRows
      [] mode = "AMENITY_GAP"        -> GapRows

RowLists(mode) == UNION {[1..n -> RowKinds(mode)] : n \in 0..MaxRows}

\* the column interpolated into a query's text ("" when the template has none)
ColumnOf(q) == IF IsNone(q.column) THEN "" ELSE Val(q.column)

\* client.query(query, job_config=job_config): the query reaches the warehouse
Submit(q) == <<Event("query", q.select, ColumnOf(q))>>

\* query_job = client.query(query, job_config); rows = [...query_job.result()]
\* The warehouse is free to fail or to answer with any row list.
AzExecute ==
    /\ pc = "az_exec"
    /\ LET q == Val(az.query)
       IN  \/ \* client.query raises: caught
              AzReturnAfter(Submit(q), AzError(ExcMsg("client.query")))
           \/ \* query_job.result() raises: caught
              AzReturnAfter(Submit(q), AzError(ExcMsg("query_job.result")))
           \/ \E rows \in RowLists(q.select) :
                 AzReturnAfter(Submit(q), AzSuccess(az.mode, args.city, rows))
    /\ UNCHANGED <<tool, args, key, place, apiCalls, az, insights, locals, table>>

(* ---- the AMENITY_GAP query, as the warehouse evaluates it ---- *)
\* longest table of the exhaustive family
MaxPlaces == 3
\* most postal codes of the wide family (above the query's LIMIT)
MaxZips == 11
\* largest aggregation threshold the warehouse applies
MaxThreshold == 2
\* LIMIT 10
QueryLimit == 10

Place(z, a, c, t) == [postal_code |-> z, amenity |-> a, city |-> c, primary_type |-> t]

\* the amenity column of a place is TRUE, FALSE or NULL
AmenityValues == {"TRUE", "FALSE", "NULL"}

PlaceKinds ==
    {Place(z, a, c, "coffee_shop") : z \in Zips, a \in AmenityValues,
                                     c \in {"Chicago", "Austin"}}

\* every table of at most MaxPlaces places
SmallTables == UNION {[1..n -> PlaceKinds] : n \in 0..MaxPlaces}

\* n postal codes; code i holds 1 + (i % 2) places with the amenity and
\* (i * k) % 4 places without it (FALSE for odd i, NULL for even i)
WidePlaces(i, k) ==
    [j \in 1..(1 + (i % 2)) |-> Place(ZipCode(i), "TRUE", "Chicago", "coffee_shop")]
    \o [j \in 1..((i * k) % 4) |->
           Place(ZipCode(i), IF i % 2 = 1 THEN "FALSE" ELSE "NULL", "Chicago", "coffee_shop")]

RECURSIVE WideTable(_, _)
WideTable(n, k) == IF n = 0 THEN <<>> ELSE WideTable(n - 1, k) \o WidePlaces(n, k)

WideTables == {WideTable(n, k) : n \in (MaxZips - 2)..MaxZips, k \in 1..3}

Tables == SmallTables \cup WideTables

\* WHERE city = @city AND primary_type = @type
Matching(t, params) ==
    {i \in 1..Len(t) : t[i].city = params.city /\ t[i].primary_type = params.type}

\* COUNTIF(cond) over the places of one postal code
CountIf(t, idx, z, vals) ==
    Cardinality({i \in idx : t[i].postal_code = z /\ t[i].amenity \in vals})

\* a percentage that is truncated instead of rounded
RoundPercent_trunc(num, den) == (1000 * num) \div den

\* ROUND(num / den * 100, 1), in tenths; halves round away from zero
RoundPercent(num, den) == (2000 * num + den) \div (2 * den)

\* the SELECT list for the group of postal code z
AmenityGapRow(t, idx, z) ==
    LET total == CountIf(t, idx, z, AmenityValues)
        has == CountIf(t, idx, z, {"TRUE"})
        lacks == CountIf(t, idx, z, {"FALSE", "NULL"})
    IN  [postal_code |-> Some(z),
         total_competitors |-> Some(total),
         has_amenity |-> Some(has),
         lacks_amenity |-> Some(lacks),
         saturation_percentage |-> Some(RoundPercent(has, total))]

\* the number a postal code stands for
ZipIndex(z) == CHOOSE i \in 1..(MaxZips + 1) : ZipCode(i) = z

\* r comes before s under ORDER BY lacks_amenity DESC; the order of ties is
\* the warehouse's choice (asc: by postal code ascending, else descending)
RowBefore(r, s, asc) ==
    \/ Val(r.lacks_amenity) > Val(s.lacks_amenity)
    \/ /\ Val(r.lacks_amenity) = Val(s.lacks_amenity)
       /\ IF asc THEN ZipIndex(Val(r.postal_code)) <= ZipIndex(Val(s.postal_code))
                 ELSE ZipIndex(Val(r.postal_code)) >= ZipIndex(Val(s.postal_code))

RECURSIVE OrderBy(_, _)
\* the rows of the set rs as a list, first row first
OrderBy(rs, asc) ==
    IF rs = {} THEN <<>>
    ELSE LET first == CHOOSE r \in rs : \A s \in rs : RowBefore(r, s, asc)
         IN  <<first>> \o OrderBy(rs \ {first}, asc)

\* SELECT WITH AGGREGATION_THRESHOLD ... GROUP BY postal_code
\* ORDER BY lacks_amenity DESC LIMIT 10
EvalAmenityGap(q, t, threshold, asc) ==
    LET idx == Matching(t, q.params)
        groups == {t[i].postal_code : i \in idx}
        rows == {AmenityGapRow(t, idx, z) : z \in groups}
        kept == {r \in rows : Val(r.total_competitors) >= threshold}
    IN  Slice(OrderBy(kept, asc), QueryLimit)

\* client.query / query_job.result() with a warehouse that evaluates the
\* AMENITY_GAP query on its table (other modes: any row list)
AzEvaluate ==
    /\ pc = "az_exec"
    /\ LET q == Val(az.query)
       IN  \/ /\ AzReturnAfter(Submit(q), AzError(ExcMsg("query_job.result")))
              /\ table' = table
           \/ /\ q.select = "AMENITY_GAP"
              /\ \E t \in Tables, k \in 1..MaxThreshold, asc \in BOOLEAN :
                    /\ table' = t
                    /\ AzReturnAfter(Submit(q),
                          AzSuccess(az.mode, args.city, EvalAmenityGap(q, t, k, asc)))
           \/ /\ q.select # "AMENITY_GAP"
              /\ table' = table
              /\ \E rows \in RowLists(q.select) :
                    AzReturnAfter(Submit(q), AzSuccess(az.mode, args.city, rows))
    /\ UNCHANGED <<tool, args, key, place, apiCalls, az, insights, locals>>

(* ====================================================================== *)
(* places_insights.py: get_price_segmentation                             *)
(* ====================================================================== *)
\* the tool get_price_segmentation is called; it calls the analyzer
CallGetPriceSegmentation ==
    /\ pc = "idle"
    /\ \E c \in Cities, b \in BusinessTypes :
          args' = [city |-> c, business_type |-> b, environ |-> EmptyDict]
    /\ EnterAnalyzer("PRICE_DISTRIBUTION", None, "price")
    /\ tool' = "get_price_segmentation"
    /\ UNCHANGED <<key, place, apiCalls, azResult, insights, locals, result, escaped, table>>

\* a classification whose comparisons are >= instead of >
Segment_ge(luxury, moderate, budget) ==
    IF luxury >= (budget + moderate) THEN "Luxury Dominant"
    ELSE IF budget >= (luxury + moderate) THEN "Budget Dominant"
    ELSE "Mixed/Competitive"

\* the if/elif/else on the three counts
Segment(luxury, moderate, budget) ==
    IF luxury > (budget + moderate) THEN "Luxury Dominant"
    ELSE IF budget > (luxury + moderate) THEN "Budget Dominant"
    ELSE "Mixed/Competitive"

\* f"Lux:{luxury}, Mod:{moderate}, Bud:{budget}"
PriceDetails(luxury, moderate, budget) ==
    "Lux:" \o IntToStr(luxury) \o ", Mod:" \o IntToStr(moderate)
           \o ", Bud:" \o IntToStr(budget)

luxury_count(area) == Get(area, "luxury_count", Some(0))
moderate_count(area) == Get(area, "moderate_count", Some(0))
budget_count(area) == Get(area, "budget_count", Some(0))

\* the arithmetic on the counts raises TypeError when one of them is None
PriceRowRaises(area) ==
    \/ IsNone(luxury_count(area))
    \/ IsNone(moderate_count(area))
    \/ IsNone(budget_count(area))

\* one entry of formatted_results
FormatPriceRow(area) ==
    LET luxury == Val(luxury_count(area))
        moderate == Val(moderate_count(area))
        budget == Val(budget_count(area))
    IN  [zip_code |-> GetOpt(area, "postal_code"),
         market_segment |-> Segment(luxury, moderate, budget),
         details |-> PriceDetails(luxury, moderate, budget)]

\* if raw_data.get("status") == "error": return raw_data; the loop; return
PsFormat ==
    /\ pc = "ps_format"
    /\ LET raw_data == azResult
           rows == Get(raw_data, "results", <<>>)
       IN  IF raw_data.status = "error"
           THEN Return(raw_data)
           ELSE IF \E i \in 1..Len(rows) : PriceRowRaises(rows[i])
           THEN Raise
           ELSE Return([status |-> "success",
                        summary |-> [i \in 1..Len(rows) |-> FormatPriceRow(rows[i])]])
    /\ UNCHANGED <<tool, args, key, place, apiCalls, az, azResult, trace, insights, locals, table>>

(* ====================================================================== *)
(* places_insights.py: find_competitor_weaknesses                         *)
(* ====================================================================== *)
\* the tool find_competitor_weaknesses is called; it runs the vulnerability scan
CallFindCompetitorWeaknesses ==
    /\ pc = "idle"
    /\ \E c \in Cities, b \in BusinessTypes, a \in Amenities :
          args' = [city |-> c, business_type |-> b, check_amenity |-> a,
                   environ |-> EmptyDict]
    /\ insights' = NoInsights
    /\ locals' = NoLocals
    /\ EnterAnalyzer("VULNERABILITY", None, "vuln")
    /\ tool' = "find_competitor_weaknesses"
    /\ UNCHANGED <<key, place, apiCalls, azResult, result, escaped, table>>

\* str() of a float held in hundredths: 385 is "3.85", 350 is "3.5", 400 is "4.0"
HundredthsToStr(h) ==
    IntToStr(h \div 100) \o "." \o
    (IF h % 10 = 0 THEN Digit((h % 100) \div 10)
     ELSE Digit((h % 100) \div 10) \o Digit(h % 10))

\* f"Avg Rating: {area.get('avg_rating')} ({area.get('total_review_volume')} reviews)"
VulnStats(area) ==
    LET r == GetOpt(area, "avg_rating")
        v == GetOpt(area, "total_review_volume")
    IN  "Avg Rating: " \o (IF IsNone(r) THEN "None" ELSE HundredthsToStr(Val(r)))
        \o " (" \o (IF IsNone(v) THEN "None" ELSE IntToStr(Val(v))) \o " reviews)"

\* one entry of insights["vulnerable_areas"]
FormatVulnRow(area) ==
    [zip_code |-> GetOpt(area, "postal_code"),
     reason |-> "High Volume / Low Rating",
     stats |-> VulnStats(area)]

\* the section built from vuln_data
VulnerableAreas(vuln_data) ==
    IF vuln_data.status = "success"
    THEN LET rows == Get(vuln_data, "results", <<>>)
         IN  [i \in 1..Len(rows) |-> FormatVulnRow(rows[i])]
    ELSE <<>>

\* a formatter that runs the amenity scan only after a successful vulnerability scan
CwVuln_gapNeedsVuln ==
    /\ pc = "cw_vuln"
    /\ locals' = [locals EXCEPT !.vuln_data = azResult]
    /\ insights' = [insights EXCEPT !.vulnerable_areas = @ \o VulnerableAreas(azResult)]
    /\ IF Truthy(args.check_amenity) /\ azResult.status = "success"
       THEN /\ EnterAnalyzer("AMENITY_GAP", args.check_amenity, "gap")
            /\ UNCHANGED <<azResult, result, escaped>>
       ELSE /\ Return([status |-> "success", insights |-> insights'])
            /\ UNCHANGED <<az, azResult, trace>>
    /\ UNCHANGED <<tool, args, key, place, apiCalls, table>>

\* if vuln_data.get("status") == "success": ...; if check_amenity: gap_data = ...
CwVuln ==
    /\ pc = "cw_vuln"
    /\ locals' = [locals EXCEPT !.vuln_data = azResult]
    /\ insights' = [insights EXCEPT !.vulnerable_areas = @ \o VulnerableAreas(azResult)]
    /\ IF Truthy(args.check_amenity)
       THEN /\ EnterAnalyzer("AMENITY_GAP", args.check_amenity, "gap")
            /\ UNCHANGED <<azResult, result, escaped>>
       ELSE /\ Return([status |-> "success", insights |-> insights'])
            /\ UNCHANGED <<az, azResult, trace>>
    /\ UNCHANGED <<tool, args, key, place, apiCalls, table>>

\* the literal 30 of "if saturation < 30"
SaturationThreshold == 30

\* saturation = area.get('saturation_percentage', 100)
saturation(area) == Get(area, "saturation_percentage", Some(1000))

\* a filter that keeps a row at exactly 30
LowSaturation_le(area) == Val(saturation(area)) <= SaturationThreshold * 10

\* if saturation < 30  (saturation in tenths)
LowSaturation(area) == Val(saturation(area)) < SaturationThreshold * 10

\* one entry of insights["amenity_gaps"]
FormatGapRow(area, check_amenity) ==
    [zip_code |-> GetOpt(area, "postal_code"),
     opportunity |-> "Lack of " \o check_amenity,
     details |-> "Only " \o TenthsToStr(Val(saturation(area)))
                 \o "% of competitors have this."]

RECURSIVE LowSaturationRows(_)
\* the rows the loop keeps, in the order it visits them
LowSaturationRows(rows) ==
    IF rows = <<>> THEN <<>>
    ELSE (IF LowSaturation(Head(rows)) THEN <<Head(rows)>> ELSE <<>>)
         \o LowSaturationRows(Tail(rows))

\* the section built from gap_data
AmenityGaps(gap_data, check_amenity) ==
    IF gap_data.status = "success"
    THEN LET kept == LowSaturationRows(Get(gap_data, "results", <<>>))
         IN  [i \in 1..Len(kept) |-> FormatGapRow(kept[i], check_amenity)]
    ELSE <<>>

\* "saturation < 30" raises TypeError when the column holds None
GapRaises(gap_data) ==
    /\ gap_data.status = "success"
    /\ \E i \in 1..Len(gap_data.results) : IsNone(saturation(gap_data.results[i]))

\* if gap_data.get("status") == "success": ...; return
CwGap ==
    /\ pc = "cw_gap"
    /\ locals' = [locals EXCEPT !.gap_data = azResult]
    /\ IF GapRaises(azResult)
       THEN Raise /\ insights' = insights
       ELSE /\ insights' = [insights EXCEPT !.amenity_gaps =
                               @ \o AmenityGaps(azResult, Val(args.check_amenity))]
            /\ Return([status |-> "success", insights |-> insights'])
    /\ UNCHANGED <<tool, args, key, place, apiCalls, az, azResult, trace, table>>

\* the caller takes the result; the next tool call may start
Finish ==
    /\ pc = "done"
    /\ pc' = "idle"
    /\ tool' = ""
    /\ args' = EmptyDict
    /\ key' = ""
    /\ place' = EmptyDict
    /\ apiCalls' = <<>>
    /\ az' = NoFrame
    /\ azResult' = EmptyDict
    /\ trace' = <<>>
    /\ insights' = NoInsights
    /\ locals' = NoLocals
    /\ result' = EmptyDict
    /\ escaped' = FALSE
    /\ table' = <<>>

Next ==
    \/ CallGetPlacesDetails
    \/ PdResolveKey
    \/ PdCreateClient
    \/ PdPlace
    \/ PdFormat
    \/ CallAnalyzeMarketGaps
    \/ AzCreateClient
    \/ AzDispatch
    \/ AzExecute
    \/ CallGetPriceSegmentation
    \/ PsFormat
    \/ CallFindCompetitorWeaknesses
    \/ CwVuln
    \/ CwGap
    \/ Finish

Spec == Init /\ [][Next]_vars

\* analyze_market_gaps against a warehouse that evaluates the query
NextQuery ==
    \/ CallAnalyzeMarketGaps
    \/ AzCreateClient
    \/ AzDispatch
    \/ AzEvaluate
    \/ Finish

SpecQuery == Init /\ [][NextQuery]_vars

(* ====================================================================== *)
(* Properties                                                             *)
(* ====================================================================== *)
\* the call of entry point t has ended (returned or raised)
Done(t) == pc = "done" /\ tool = t
\* the call of entry point t has returned a value
Returned(t) == Done(t) /\ ~escaped

Min(a, b) == IF a <= b THEN a ELSE b

\* the events of kind e and mode m in the trace, as positions
Events(e, m) == {i \in 1..Len(trace) : trace[i].ev = e /\ trace[i].mode = m}
Queries == {i \in 1..Len(trace) : trace[i].ev = "query"}

(* ------------------------------- C1 ----------------------------------- *)
\* C1: every tool call ends by returning a result whose status is "success"
\* or "error"; no exception reaches the caller, whatever the collaborators do
\* (failures, rows with a missing or null column).
C1_NoExceptionEscapes ==
    pc = "done" => (~escaped /\ result.status \in {"success", "error"})

(* ------------------------------- C2 ----------------------------------- *)
\* the request fails validation: unknown mode, or AMENITY_GAP with an absent,
\* empty or not allow-listed target_amenity
InvalidRequest(a) ==
    \/ a.analysis_mode \notin ValidModes
    \/ /\ a.analysis_mode = "AMENITY_GAP"
       /\ (~Truthy(a.target_amenity) \/ Val(a.target_amenity) \notin allowed_cols)

\* C2: an invalid analyze_market_gaps request ends with the validation
\* message in every environment (also when the warehouse client cannot be
\* created), and no query reaches the warehouse.
C2_ValidationError ==
    (Done("analyze_market_gaps") /\ InvalidRequest(args)) =>
        /\ ~escaped
        /\ result.status = "error"
        /\ result.error_message \in ValidationMsgs
        /\ Queries = {}
        /\ IsNone(az.query)

(* ------------------------------- C3 ----------------------------------- *)
\* the count a row holds in column k (0 when the column is missing)
CountOf(row, k) == IF k \in DOMAIN row THEN Val(row[k]) ELSE 0

\* every count of every row is a number
CountsAreNumbers(rows) ==
    \A i \in 1..Len(rows) :
        \A k \in {"luxury_count", "moderate_count", "budget_count"} :
            k \in DOMAIN rows[i] => ~IsNone(rows[i][k])

\* C3: when the analyzer succeeds with rows of non-negative counts,
\* get_price_segmentation returns one summary entry per row, in row order;
\* market_segment is "Luxury Dominant" iff L > B+M, "Budget Dominant" iff
\* not (L > B+M) and B > L+M, "Mixed/Competitive" otherwise (so on every
\* equality); details is "Lux:{L}, Mod:{M}, Bud:{B}".
C3_PriceSegmentation ==
    (Done("get_price_segmentation") /\ azResult.status = "success"
        /\ CountsAreNumbers(azResult.results)) =>
        LET rows == azResult.results
        IN  /\ ~escaped
            /\ result.status = "success"
            /\ Len(result.summary) = Len(rows)
            /\ \A i \in 1..Len(rows) :
                  LET L == CountOf(rows[i], "luxury_count")
                      M == CountOf(rows[i], "moderate_count")
                      B == CountOf(rows[i], "budget_count")
                      e == result.summary[i]
                  IN  /\ e.zip_code = rows[i].postal_code
                      /\ e.market_segment \in
                            {"Luxury Dominant", "Budget Dominant", "Mixed/Competitive"}
                      /\ (e.market_segment = "Luxury Dominant") <=> (L > B + M)
                      /\ (e.market_segment = "Budget Dominant") <=>
                            (~(L > B + M) /\ B > L + M)
                      /\ (L = B + M \/ B = L + M) =>
                            e.market_segment = "Mixed/Competitive"
                      /\ e.details = "Lux:" \o IntToStr(L) \o ", Mod:" \o IntToStr(M)
                                     \o ", Bud:" \o IntToStr(B)
                      /\ (L = 1 /\ M = 2 /\ B = 5) =>
                            e = [zip_code |-> rows[i].postal_code,
                                 market_segment |-> "Budget Dominant",
                                 details |-> "Lux:1, Mod:2, Bud:5"]
                      /\ (L = 120 /\ M = 30 /\ B = 45) =>
                            e.details = "Lux:120, Mod:30, Bud:45"

\* two rows of different postal codes: a luxury row, then a row of all zeros
C3_Witness ==
    /\ Returned("get_price_segmentation")
    /\ result.status = "success"
    /\ Len(result.summary) = 2
    /\ result.summary[1] = [zip_code |-> Some("60602"),
                            market_segment |-> "Luxury Dominant",
                            details |-> "Lux:1, Mod:0, Bud:0"]
    /\ result.summary[2] = [zip_code |-> Some("60601"),
                            market_segment |-> "Mixed/Competitive",
                            details |-> "Lux:0, Mod:0, Bud:0"]

(* ------------------------------- C4 ----------------------------------- *)
\* C4: find_competitor_weaknesses returns status "success" for every
\* combination of sub-call outcomes; vulnerable_areas is empty when the
\* VULNERABILITY sub-call fails and has one entry per row otherwise;
\* amenity_gaps depends on the AMENITY_GAP sub-call alone.
C4_AlwaysSuccess ==
    Done("find_competitor_weaknesses") =>
        /\ ~escaped
        /\ result.status = "success"
        /\ LET v == locals.vuln_data
               areas == result.insights.vulnerable_areas
           IN  IF v.status = "success"
               THEN /\ Len(areas) = Len(v.results)
                    /\ \A i \in 1..Len(areas) :
                          areas[i].zip_code = GetOpt(v.results[i], "postal_code")
               ELSE areas = <<>>
        /\ (locals.gap_data.status # "success") => result.insights.amenity_gaps = <<>>

(* ------------------------------- C5 ----------------------------------- *)
\* positions of the rows whose saturation_percentage is present and below 30
BelowThirty(rows) ==
    {i \in 1..Len(rows) :
        /\ "saturation_percentage" \in DOMAIN rows[i]
        /\ ~IsNone(rows[i].saturation_percentage)
        /\ Val(rows[i].saturation_percentage) < 300}

\* every row holds a number in saturation_percentage or lacks the column
SaturationsAreNumbers(rows) ==
    \A i \in 1..Len(rows) :
        "saturation_percentage" \in DOMAIN rows[i] => ~IsNone(rows[i].saturation_percentage)

\* the j-th smallest member of the set of positions K
Nth(K, j) == CHOOSE i \in K : Cardinality({x \in K : x <= i}) = j

\* C5: with check_amenity supplied and the AMENITY_GAP sub-call succeeding
\* with rows whose saturation_percentage is a number or missing, the call
\* returns and amenity_gaps holds an entry for a row iff the row's saturation_percentage
\* is strictly below 30 (30 is excluded, 29.9 is included, a row without the
\* column is excluded), in the order of the analyzer's rows.
C5_GapFilter ==
    (Done("find_competitor_weaknesses") /\ Truthy(args.check_amenity)
        /\ locals.gap_data.status = "success"
        /\ SaturationsAreNumbers(locals.gap_data.results)) =>
        LET rows == locals.gap_data.results
            K == BelowThirty(rows)
            gaps == IF escaped THEN <<>> ELSE result.insights.amenity_gaps
        IN  /\ ~escaped
            /\ Len(gaps) = Cardinality(K)
            /\ \A j \in 1..Len(gaps) :
                  LET row == rows[Nth(K, j)]
                  IN  /\ gaps[j].zip_code = row.postal_code
                      /\ gaps[j].opportunity = "Lack of " \o Val(args.check_amenity)
                      /\ gaps[j].details =
                            "Only " \o TenthsToStr(Val(row.saturation_percentage))
                            \o "% of competitors have this."

\* a row at exactly 30 and a row at 29.9: only the second is reported
C5_Witness ==
    /\ Returned("find_competitor_weaknesses")
    /\ locals.gap_data.status = "success"
    /\ Len(locals.gap_data.results) = 2
    /\ locals.gap_data.results[1] = GapRow("60601", Present(300))
    /\ locals.gap_data.results[2] = GapRow("60602", Present(299))
    /\ Len(result.insights.amenity_gaps) = 1
    /\ result.insights.amenity_gaps[1].zip_code = Some("60602")
    /\ result.insights.amenity_gaps[1].details = "Only 29.9% of competitors have this."

(* ------------------------------- C6 ----------------------------------- *)
\* the reviews the Places API returned
SourceReviews ==
    LET res == Get(place, "result", EmptyDict)
    IN  IF "reviews" \in DOMAIN res /\ ~IsNone(res.reviews) THEN Val(res.reviews) ELSE <<>>

\* C6: on success latest_reviews is the first min(5, n) of the n reviews the
\* Places API returned, in the API's order, one entry per source review.
C6_ReviewsPrefix ==
    (Done("get_places_details") /\ ~escaped /\ result.status = "success") =>
        LET src == SourceReviews
            out == result.insights.latest_reviews
        IN  /\ Len(out) = Min(5, Len(src))
            /\ Len(out) <= 5
            /\ \A i \in 1..Len(out) :
                  /\ out[i].author = (IF "author_name" \in DOMAIN src[i]
                                      THEN src[i].author_name ELSE Some("Anonymous"))
                  /\ out[i].rating = (IF "rating" \in DOMAIN src[i]
                                      THEN src[i].rating ELSE Some(0))
                  /\ out[i].text = (IF "text" \in DOMAIN src[i]
                                    THEN src[i].text ELSE Some(""))

\* six reviews came back, the fifth and the sixth differ, five are kept
C6_Witness ==
    /\ Returned("get_places_details")
    /\ result.status = "success"
    /\ Len(SourceReviews) = 6
    /\ SourceReviews[1] = Review2
    /\ SourceReviews[5] = Review1
    /\ SourceReviews[6] = Review2
    /\ Len(result.insights.latest_reviews) = 5
    /\ result.insights.latest_reviews[5].author = Some("Ann")

(* ------------------------------- C7 ----------------------------------- *)
\* C7: on success contact.phone and contact.website are never null: when the
\* upstream key is absent or holds null the output is "N/A".
C7_ContactNeverNull ==
    (Done("get_places_details") /\ ~escaped /\ result.status = "success") =>
        LET res == place.result
            c == result.insights.contact
        IN  /\ ~IsNone(c.phone)
            /\ ~IsNone(c.website)
            /\ ("formatted_phone_number" \notin DOMAIN res
                   \/ IsNone(GetOpt(res, "formatted_phone_number")))
                 => c.phone = Some("N/A")
            /\ ("website" \notin DOMAIN res \/ IsNone(GetOpt(res, "website")))
                 => c.website = Some("N/A")

(* ------------------------------- C8 ----------------------------------- *)
\* the value of maps_api_key in the session state ("" when there is none)
SessionKey ==
    IF IsNone(args.tool_context) THEN ""
    ELSE LET st == Val(args.tool_context).state
         IN  IF "maps_api_key" \in DOMAIN st /\ ~IsNone(st.maps_api_key)
             THEN Val(st.maps_api_key) ELSE ""

\* the value of MAPS_API_KEY in the environment ("" when it is unset)
EnvKey == IF "MAPS_API_KEY" \in DOMAIN args.environ THEN args.environ.MAPS_API_KEY ELSE ""

\* C8: the key is the session value when that is non-empty, else the
\* environment value; with neither the call returns an error with empty
\* insights and never calls the Places API; the API is called at most once,
\* with the resolved key.
C8_KeyResolution ==
    tool = "get_places_details" =>
        LET expected == IF SessionKey # "" THEN SessionKey ELSE EnvKey
        IN  /\ Len(apiCalls) <= 1
            /\ \A i \in 1..Len(apiCalls) : apiCalls[i] = expected /\ expected # ""
            /\ pc \in {"pd_client", "pd_place", "pd_format"} => key = expected
            /\ (pc = "done" /\ expected = "") =>
                  /\ ~escaped
                  /\ result.status = "error"
                  /\ result.insights = EmptyDict
                  /\ apiCalls = <<>>

\* both keys are set and the API was called with the session key
C8_Witness ==
    /\ Returned("get_places_details")
    /\ result.status = "success"
    /\ SessionKey = "AIza-session"
    /\ EnvKey = "AIza-env"
    /\ apiCalls = <<"AIza-session">>

(* ------------------------------- C9 ----------------------------------- *)
\* the places of the table that the query's WHERE clause keeps, per postal code
PlacesOf(z) ==
    {i \in 1..Len(table) : /\ table[i].postal_code = z
                           /\ table[i].city = args.city
                           /\ table[i].primary_type = args.business_type}

\* C9: every row of a valid AMENITY_GAP query has
\* has_amenity + lacks_amenity = total_competitors >= 1 and
\* saturation_percentage = round(has_amenity / total_competitors * 100, 1)
\* within [0, 100]; rows are ordered by lacks_amenity descending; at most 10
\* rows come back.
C9_AmenityGapRows ==
    (Returned("analyze_market_gaps") /\ result.status = "success"
        /\ result.analysis_mode = "AMENITY_GAP") =>
        LET rows == result.results
        IN  /\ Len(rows) <= 10
            /\ \A i \in 1..Len(rows) :
                  LET total == Val(rows[i].total_competitors)
                      has == Val(rows[i].has_amenity)
                      lacks == Val(rows[i].lacks_amenity)
                      sat == Val(rows[i].saturation_percentage)
                      ps == PlacesOf(Val(rows[i].postal_code))
                  IN  /\ has + lacks = total
                      /\ total >= 1
                      /\ total = Cardinality(ps)
                      /\ has = Cardinality({p \in ps : table[p].amenity = "TRUE"})
                      /\ sat >= 0 /\ sat <= 1000
                      \* sat is the tenth nearest to has / total * 100
                      /\ 2 * (sat * total - 1000 * has) <= total
                      /\ 2 * (1000 * has - sat * total) < total
            /\ \A i \in 1..Len(rows), j \in 1..Len(rows) :
                  i < j => /\ Val(rows[i].lacks_amenity) >= Val(rows[j].lacks_amenity)
                           /\ rows[i].postal_code # rows[j].postal_code

\* more than ten postal codes qualify, ten rows come back, and a saturation
\* needed rounding (1 of 3 is 33.3)
C9_Witness ==
    /\ Returned("analyze_market_gaps")
    /\ result.status = "success"
    /\ result.analysis_mode = "AMENITY_GAP"
    /\ Cardinality({table[i].postal_code : i \in 1..Len(table)}) > 10
    /\ Len(result.results) = 10
    /\ \E i \in 1..10 : /\ Val(result.results[i].total_competitors) = 3
                        /\ Val(result.results[i].saturation_percentage) = 333
    /\ Val(result.results[1].lacks_amenity) > Val(result.results[10].lacks_amenity)

(* ------------------------------- C10 ---------------------------------- *)
Calls == {i \in 1..Len(trace) : trace[i].ev = "call"}

\* the report built with the amenity section first and the vulnerability
\* section second
SwappedReport ==
    LET first == IF locals.gap_data = Unbound THEN NoInsights
                 ELSE [NoInsights EXCEPT !.amenity_gaps =
                          @ \o AmenityGaps(locals.gap_data, Val(args.check_amenity))]
    IN  [first EXCEPT !.vulnerable_areas = @ \o VulnerableAreas(locals.vuln_data)]

\* C10: a call of find_competitor_weaknesses invokes the analyzer once in
\* VULNERABILITY mode and, after that call has returned, once in AMENITY_GAP
\* mode iff check_amenity is non-empty; each invocation submits at most one
\* query and none is re-issued after a failure; the report does not depend
\* on which section is built first.
C10_CallsAndQueries ==
    tool = "find_competitor_weaknesses" =>
        /\ Cardinality(Events("call", "VULNERABILITY")) = 1
        /\ Cardinality(Events("call", "AMENITY_GAP")) <= 1
        /\ Calls = Events("call", "VULNERABILITY") \cup Events("call", "AMENITY_GAP")
        /\ Events("call", "AMENITY_GAP") # {} => Truthy(args.check_amenity)
        /\ pc = "done" =>
              (Events("call", "AMENITY_GAP") # {} <=> Truthy(args.check_amenity))
        /\ \A g \in Events("call", "AMENITY_GAP") :
              \E r \in Events("return", "VULNERABILITY") : r < g
        /\ \A m \in {"VULNERABILITY", "AMENITY_GAP"} :
              /\ Cardinality(Events("query", m)) <= 1
              /\ Cardinality(Events("return", m)) <= 1
              /\ \A q \in Events("query", m) :
                    /\ \E c \in Events("call", m) : c < q
                    /\ \A r \in Events("return", m) : q < r
        /\ Queries = Events("query", "VULNERABILITY") \cup Events("query", "AMENITY_GAP")
        /\ (pc = "done" /\ ~escaped) => result.insights = SwappedReport

\* the vulnerability query failed, the amenity query ran once, the report
\* holds amenity gaps and no vulnerable area
C10_Witness ==
    /\ Returned("find_competitor_weaknesses")
    /\ locals.vuln_data.status = "error"
    /\ Cardinality(Events("query", "VULNERABILITY")) = 1
    /\ Cardinality(Events("query", "AMENITY_GAP")) = 1
    /\ result.insights.vulnerable_areas = <<>>
    /\ Len(result.insights.amenity_gaps) = 2
====
